---- MODULE Spec2Model ----
(***************************************************************************)
(* A model of the backtesting engine of src/str.py: class                  *)
(* TechnicalAnalysis (open_position, close_position,                       *)
(* check_exit_conditions, generate_signal, run_backtest,                   *)
(* calculate_statistics).                                                  *)
(*                                                                         *)
(* Prices are integers of a small grid.  Every other amount (commission,   *)
(* profit, percentage, capital) is an exact fraction <<num, den>> in       *)
(* lowest terms with den > 0, so the float expressions of the source are   *)
(* evaluated over the rationals: rounding error is not modelled.           *)
(***************************************************************************)
EXTENDS Integers, Sequences, FiniteSets, TLC

\* ------------------------------------------------------------------ bounds
\* Number of bars after the warm-up region that a series may hold.
MaxTail == 3
\* Distance between the timestamps of two consecutive bars.
BarInterval == 5
\* Number of direct open_position calls in ApiSpec.
MaxApiOpens == 2
\* Number of bars after the warm-up region of a series in CfgSpec.
MaxCfgTail == 1
\* Number of bars that follow the constant rows of a series in EmaSpec.
MaxEmaTail == 3
\* Number of open_position calls in CallSpec.
MaxCallOpens == 1

\* ------------------------------------------------------- program constants
\* `if i < 200: continue` of run_backtest.
WarmUp == 200

\* The price grid of the bars and of the stop/target levels.
Prices == {1, 2, 3}

\* Python's None, where the other values are records (self.current_position,
\* the statistics) and where they are strings (a direction, an exit reason).
None == [none |-> TRUE]
NoneStr == "None"

\* ---------------------------------------------------- fractions (floats)
RECURSIVE GCD(_, _)
GCD(a, b) == IF b = 0 THEN a ELSE GCD(b, a % b)

Abs(x) == IF x < 0 THEN -x ELSE x

\* The fraction n/d in lowest terms with a positive denominator.
Frac(n, d) ==
    LET g == GCD(Abs(n), Abs(d))
        s == IF d < 0 THEN -1 ELSE 1
    IN  <<(s * n) \div g, (s * d) \div g>>

R(x) == <<x, 1>>
RAdd(x, y) == Frac(x[1] * y[2] + y[1] * x[2], x[2] * y[2])
RSub(x, y) == Frac(x[1] * y[2] - y[1] * x[2], x[2] * y[2])
RMul(x, y) == Frac(x[1] * y[1], x[2] * y[2])
RDiv(x, y) == Frac(x[1] * y[2], x[2] * y[1])
RLt(x, y) == x[1] * y[2] < y[1] * x[2]
RLe(x, y) == x[1] * y[2] <= y[1] * x[2]
RAbs(x) == <<Abs(x[1]), x[2]>>

RECURSIVE PosLess(_, _, _, _)
\* a/b < c/d for a, c >= 0 and b, d > 0, by comparing the integer parts and
\* then the reciprocals of the remainders: no product is formed.
PosLess(a, b, c, d) ==
    IF a \div b # c \div d THEN a \div b < c \div d
    ELSE IF c % d = 0 THEN FALSE
    ELSE IF a % b = 0 THEN TRUE
    ELSE PosLess(d, c % d, b, a % b)

\* x < y for fractions whose cross products exceed the integer range.
RLtWide(x, y) ==
    IF x[1] < 0 /\ y[1] >= 0 THEN TRUE
    ELSE IF x[1] >= 0 /\ y[1] < 0 THEN FALSE
    ELSE IF x[1] >= 0 THEN PosLess(x[1], x[2], y[1], y[2])
    ELSE PosLess(-y[1], y[2], -x[1], x[2])

\* ------------------------------------------------------------------ state
VARIABLES
    lead,              \* number of leading rows of self.data (all FillRow)
    data,              \* the rows of self.data after the leading ones
    strategy,          \* which class the engine object is an instance of
    initial_capital,   \* self.initial_capital
    commission_rate,   \* self.commission_rate
    current_capital,   \* self.current_capital
    trades,            \* self.trades
    current_position,  \* self.current_position (None or a record)
    pc,                \* control point of run_backtest
    i,                 \* loop variable of run_backtest
    stats,             \* the last result of calculate_statistics, or None
    opens,             \* history: entry bar index of every open_position call
    closes,            \* history: <<entry index, exit index>> of every trade
    signal_bars,       \* history: bar indices on which generate_signal ran
    exit_bars          \* history: bar indices on which check_exit_conditions ran

vars == <<lead, data, strategy, initial_capital, commission_rate,
          current_capital, trades, current_position, pc, i, stats,
          opens, closes, signal_bars, exit_bars>>

engine == <<current_capital, trades, current_position>>
config == <<lead, data, strategy, initial_capital, commission_rate>>
history == <<opens, closes, signal_bars, exit_bars>>

\* ------------------------------------------------------------- the series
\* The bars that a series is built from: the columns the engine reads.
BarSet == {[high |-> 3, low |-> 1, close |-> 2],
           [high |-> 1, low |-> 1, close |-> 1],
           [high |-> 2, low |-> 2, close |-> 2],
           [high |-> 3, low |-> 3, close |-> 3]}

FillRow == [high |-> 2, low |-> 2, close |-> 2]

\* len(self.data)
len == lead + Len(data)

\* self.data.iloc[index] for 0 <= index < len
iloc(index) == IF index < lead THEN FillRow ELSE data[index - lead + 1]

\* self.data.iloc[index]['datetime']: strictly increasing timestamps
datetime(index) == index * BarInterval

SeqsUpTo(S, n) == UNION {[1..k -> S] : k \in 0..n}


\* ---------------------------------------------------------- open_position
\* The record stored in self.current_position.
NewPosition(index, direction, entry_price, stop_loss, take_profit) ==
    [index       |-> index,
     direction   |-> direction,
     entry_price |-> entry_price,
     stop_loss   |-> stop_loss,
     take_profit |-> take_profit,
     entry_time  |-> datetime(index)]

\* open_position assigns self.current_position unconditionally.
open_position(index, direction, entry_price, stop_loss, take_profit) ==
    /\ current_position' =
           NewPosition(index, direction, entry_price, stop_loss, take_profit)
    /\ opens' = Append(opens, [index |-> index,
                               live  |-> current_position # None])
    /\ UNCHANGED <<current_capital, trades, closes>>

\* --------------------------------------------------------- close_position
\* The commission charged once instead of on entry and on exit.
CommissionOnce(entry_price) == RMul(R(entry_price), commission_rate)

\* commission_total = entry_price * self.commission_rate * 2
CommissionTotal(entry_price) ==
    RMul(RMul(R(entry_price), commission_rate), R(2))

\* profit_loss_gross, by direction
ProfitLossGross(direction, entry_price, exit_price) ==
    IF direction = "long" THEN R(exit_price - entry_price)
                          ELSE R(entry_price - exit_price)

\* profit_loss_net = profit_loss_gross - commission_total
ProfitLossNet(direction, entry_price, exit_price) ==
    RSub(ProfitLossGross(direction, entry_price, exit_price),
         CommissionTotal(entry_price))

\* profit_loss_pct = (profit_loss_net / entry_price) * 100
ProfitLossPct(direction, entry_price, exit_price) ==
    RMul(RDiv(ProfitLossNet(direction, entry_price, exit_price),
              R(entry_price)),
         R(100))

\* The Trade object with entry_time and exit_time exchanged.
MakeTradeTimesSwapped(pos, index, exit_price, exit_reason) ==
    [entry_time      |-> datetime(index),
     exit_time       |-> pos.entry_time,
     direction       |-> pos.direction,
     entry_price     |-> pos.entry_price,
     exit_price      |-> exit_price,
     stop_loss       |-> pos.stop_loss,
     take_profit     |-> pos.take_profit,
     profit_loss     |-> ProfitLossNet(pos.direction, pos.entry_price, exit_price),
     profit_loss_pct |-> ProfitLossPct(pos.direction, pos.entry_price, exit_price),
     exit_reason     |-> exit_reason,
     commission_paid |-> CommissionTotal(pos.entry_price)]

\* The Trade object with stop_loss and take_profit exchanged.
MakeTradeLevelsSwapped(pos, index, exit_price, exit_reason) ==
    [entry_time      |-> pos.entry_time,
     exit_time       |-> datetime(index),
     direction       |-> pos.direction,
     entry_price     |-> pos.entry_price,
     exit_price      |-> exit_price,
     stop_loss       |-> pos.take_profit,
     take_profit     |-> pos.stop_loss,
     profit_loss     |-> ProfitLossNet(pos.direction, pos.entry_price, exit_price),
     profit_loss_pct |-> ProfitLossPct(pos.direction, pos.entry_price, exit_price),
     exit_reason     |-> exit_reason,
     commission_paid |-> CommissionTotal(pos.entry_price)]

\* The Trade object built from the open position.
MakeTrade(pos, index, exit_price, exit_reason) ==
    [entry_time      |-> pos.entry_time,
     exit_time       |-> datetime(index),
     direction       |-> pos.direction,
     entry_price     |-> pos.entry_price,
     exit_price      |-> exit_price,
     stop_loss       |-> pos.stop_loss,
     take_profit     |-> pos.take_profit,
     profit_loss     |-> ProfitLossNet(pos.direction, pos.entry_price, exit_price),
     profit_loss_pct |-> ProfitLossPct(pos.direction, pos.entry_price, exit_price),
     exit_reason     |-> exit_reason,
     commission_paid |-> CommissionTotal(pos.entry_price)]

\* The capital multiplied by (1 + profit_loss_pct), the percentage unscaled.
CompoundUnscaled(capital, profit_loss_pct) ==
    RMul(capital, RAdd(R(1), profit_loss_pct))

\* self.current_capital *= (1 + profit_loss_pct / 100)
Compound(capital, profit_loss_pct) ==
    RMul(capital, RAdd(R(1), RDiv(profit_loss_pct, R(100))))

\* close_position with the new trade put at the head of the list.
close_position_prepend(index, exit_price, exit_reason) ==
    IF current_position = None
    THEN UNCHANGED <<current_capital, trades, current_position, closes>>
    ELSE LET trade == MakeTrade(current_position, index, exit_price, exit_reason)
         IN  /\ current_capital' = Compound(current_capital, trade.profit_loss_pct)
             /\ trades' = <<trade>> \o trades
             /\ current_position' = None
             /\ closes' = Append(closes, [entry |-> current_position.index,
                                          exit  |-> index])

close_position(index, exit_price, exit_reason) ==
    IF current_position = None
    THEN UNCHANGED <<current_capital, trades, current_position, closes>>
    ELSE LET trade == MakeTrade(current_position, index, exit_price, exit_reason)
         IN  /\ current_capital' = Compound(current_capital, trade.profit_loss_pct)
             /\ trades' = Append(trades, trade)
             /\ current_position' = None
             /\ closes' = Append(closes, [entry |-> current_position.index,
                                          exit  |-> index])

\* -------------------------------------------------- check_exit_conditions
\* (False, None, None); the price of a None result is never read.
NoExit == [should_exit |-> FALSE, exit_price |-> 0, exit_reason |-> NoneStr]

Exit(price, reason) ==
    [should_exit |-> TRUE, exit_price |-> price, exit_reason |-> reason]

\* The decision with the target tested before the stop.
ExitDecisionTargetFirst(pos, row) ==
    IF pos.direction = "long"
    THEN IF row.high >= pos.take_profit THEN Exit(pos.take_profit, "TP")
         ELSE IF row.low <= pos.stop_loss THEN Exit(pos.stop_loss, "SL")
         ELSE NoExit
    ELSE IF row.low <= pos.take_profit THEN Exit(pos.take_profit, "TP")
         ELSE IF row.high >= pos.stop_loss THEN Exit(pos.stop_loss, "SL")
         ELSE NoExit

\* The decision for position pos on the row: the stop is tested first.
ExitDecision(pos, row) ==
    IF pos.direction = "long"
    THEN IF row.low <= pos.stop_loss THEN Exit(pos.stop_loss, "SL")
         ELSE IF row.high >= pos.take_profit THEN Exit(pos.take_profit, "TP")
         ELSE NoExit
    ELSE IF row.high >= pos.stop_loss THEN Exit(pos.stop_loss, "SL")
         ELSE IF row.low <= pos.take_profit THEN Exit(pos.take_profit, "TP")
         ELSE NoExit

\* check_exit_conditions reporting an exit at the bar's close when flat.
check_exit_conditions_flat_exit(index) ==
    IF current_position = None THEN Exit(iloc(index).close, "End")
    ELSE ExitDecision(current_position, iloc(index))

check_exit_conditions(index) ==
    IF current_position = None THEN NoExit
    ELSE ExitDecision(current_position, iloc(index))

\* -------------------------------------------------------- generate_signal
\* (None, None, None); the levels of a None signal are never read.
NoSignal == [direction |-> NoneStr, stop_loss |-> 0, take_profit |-> 0]

\* What an overriding predicate may return.
Signals == {NoSignal} \cup
           [direction : {"long", "short"}, stop_loss : Prices, take_profit : Prices]

\* The base class raises NotImplementedError.
GenerateSignalRaises == strategy = "Base"

\* ------------------------------------ EMA_CrossoverStrategy: indicators
\* The column f'ema_{period}' of add_indicators at row `index`, as its
\* offset from the close of the constant leading rows:
\* close.ewm(span=period, adjust=False).mean() is y[0] = x[0],
\* y[t] = (1 - a) * y[t-1] + a * x[t] with a = 2 / (period + 1), and the
\* same recurrence holds for y[t] - c and x[t] - c.  Over the constant
\* leading rows x[t] = c and so y[t] = c.
RECURSIVE ema(_, _)
ema(period, index) ==
    LET x == iloc(index).close - FillRow.close
    IN  IF index = 0 THEN R(x)
        ELSE IF index < lead THEN R(0)
        ELSE LET y == ema(period, index - 1)
             IN  Frac((period - 1) * y[1] + 2 * x * y[2], (period + 1) * y[2])

\* ------------------------------- EMA_CrossoverStrategy.generate_signal
\* The filter against the commission of one side only.
MinCandleSizeOneSide(close) == RMul(commission_rate, R(close))

\* min_candle_size = 2 * self.commission_rate * close
MinCandleSize(close) == RMul(RMul(R(2), commission_rate), R(close))

\* take_profit at one times the risk instead of two.
TakeProfitSingleRisk(direction, entry_price, stop_loss) ==
    IF direction = "long" THEN entry_price + (entry_price - stop_loss)
                          ELSE entry_price - (stop_loss - entry_price)

\* risk = entry - stop (long), stop - entry (short); take_profit = entry_price
\* + 2 * risk (long), entry_price - 2 * risk (short)
TakeProfit(direction, entry_price, stop_loss) ==
    IF direction = "long" THEN entry_price + 2 * (entry_price - stop_loss)
                          ELSE entry_price - 2 * (stop_loss - entry_price)

EMA_generate_signal(index) ==
    IF index < 1 THEN NoSignal
    ELSE LET current  == iloc(index)
             close    == current.close
             low      == current.low
             high     == current.high
             x        == R(close - FillRow.close)
             ema25_curr  == ema(25, index)
             ema50_curr  == ema(50, index)
             ema200_curr == ema(200, index)
             ema25_prev  == ema(25, index - 1)
             ema50_prev  == ema(50, index - 1)
             min_candle_size    == MinCandleSize(close)
             price_above_ema200 == RLtWide(ema200_curr, x)
             ema_bullish_cross  == /\ RLtWide(ema25_prev, ema50_prev)
                                   /\ RLtWide(ema50_curr, ema25_curr)
             candle_filter_long == RLt(min_candle_size, R(close - low))
             price_below_ema200 == RLtWide(x, ema200_curr)
             ema_bearish_cross  == /\ RLtWide(ema50_prev, ema25_prev)
                                   /\ RLtWide(ema25_curr, ema50_curr)
             candle_filter_short == RLt(min_candle_size, R(high - close))
         IN  IF price_above_ema200 /\ ema_bullish_cross /\ candle_filter_long
             THEN [direction   |-> "long",
                   stop_loss   |-> low,
                   take_profit |-> TakeProfit("long", close, low)]
             ELSE IF price_below_ema200 /\ ema_bearish_cross
                     /\ candle_filter_short
             THEN [direction   |-> "short",
                   stop_loss   |-> high,
                   take_profit |-> TakeProfit("short", close, high)]
             ELSE NoSignal

\* The results generate_signal(index) may return when it does not raise.
generate_signal(index) ==
    IF strategy = "EMA" THEN {EMA_generate_signal(index)} ELSE Signals


\* --------------------------------------------------- calculate_statistics
RECURSIVE SumOf(_, _)
\* sum(f(t) for t in ts), where f names a fraction field of a trade
SumOf(ts, f) ==
    IF ts = <<>> THEN R(0) ELSE RAdd(ts[1][f], SumOf(Tail(ts), f))

\* [t for t in self.trades if t.profit_loss > 0]
WinningTrades(ts) == SelectSeq(ts, LAMBDA t : RLt(R(0), t.profit_loss))

\* The losing trades taken as those with profit_loss < 0.
LosingTradesStrict(ts) == SelectSeq(ts, LAMBDA t : RLt(t.profit_loss, R(0)))

\* [t for t in self.trades if t.profit_loss <= 0]
LosingTrades(ts) == SelectSeq(ts, LAMBDA t : RLe(t.profit_loss, R(0)))

\* capital_curve[-1] * (1 + trade.profit_loss_pct / 100)
CurveStepAdditive(last, profit_loss_pct) ==
    RAdd(last, RDiv(profit_loss_pct, R(100)))
CurveStep(last, profit_loss_pct) ==
    RMul(last, RAdd(R(1), RDiv(profit_loss_pct, R(100))))

RECURSIVE CapitalCurve(_, _)
\* capital_curve: starts at `first`, one more point per trade
CapitalCurve(first, ts) ==
    IF ts = <<>> THEN <<first>>
    ELSE <<first>> \o CapitalCurve(CurveStep(first, ts[1].profit_loss_pct), Tail(ts))

\* if value > peak: peak = value
NextPeakFrozen(peak, value) == peak
NextPeak(peak, value) == IF RLt(peak, value) THEN value ELSE peak

\* drawdown = (peak - value) / peak * 100
Drawdown(peak, value) == RMul(RDiv(RSub(peak, value), peak), R(100))

RECURSIVE MaxDrawdownLoop(_, _, _)
\* The loop `for value in capital_curve` from the given peak and maximum.
MaxDrawdownLoop(curve, peak, max_drawdown) ==
    IF curve = <<>> THEN max_drawdown
    ELSE LET p  == NextPeak(peak, curve[1])
             dd == Drawdown(p, curve[1])
         IN  MaxDrawdownLoop(Tail(curve), p,
                             IF RLt(max_drawdown, dd) THEN dd ELSE max_drawdown)

\* peak = capital_curve[0]; max_drawdown = 0; then the loop
MaxDrawdown(curve) == MaxDrawdownLoop(curve, curve[1], R(0))

\* total_loss / total_profit, the quotient inverted.
ProfitFactorInverted(total_profit, total_loss) ==
    IF RLt(R(0), total_profit) THEN RDiv(total_loss, total_profit) ELSE R(0)

\* total_profit / total_loss if total_loss > 0 else 0
ProfitFactor(total_profit, total_loss) ==
    IF RLt(R(0), total_loss) THEN RDiv(total_profit, total_loss) ELSE R(0)

\* The division by self.initial_capital made before the test for an empty
\* trade list.
StatisticsRaisesOnEmpty == initial_capital[1] = 0

\* The division `/ peak` or `/ self.initial_capital` by zero raises.
StatisticsRaises == trades # <<>> /\ initial_capital[1] = 0

calculate_statistics ==
    IF Len(trades) = 0
    THEN [total_trades          |-> 0,
          winning_trades        |-> 0,
          losing_trades         |-> 0,
          win_rate              |-> R(0),
          total_profit_loss     |-> R(0),
          total_profit_loss_pct |-> R(0),
          total_commission_paid |-> R(0),
          avg_profit            |-> R(0),
          avg_loss              |-> R(0),
          profit_factor         |-> R(0),
          max_drawdown          |-> R(0),
          final_capital         |-> initial_capital]
    ELSE LET winning_trades == WinningTrades(trades)
             losing_trades  == LosingTrades(trades)
             total_profit   == SumOf(winning_trades, "profit_loss")
             total_loss     == RAbs(SumOf(losing_trades, "profit_loss"))
             capital_curve  == CapitalCurve(initial_capital, trades)
         IN  [total_trades          |-> Len(trades),
              winning_trades        |-> Len(winning_trades),
              losing_trades         |-> Len(losing_trades),
              win_rate              |->
                  RMul(Frac(Len(winning_trades), Len(trades)), R(100)),
              total_profit_loss     |-> SumOf(trades, "profit_loss"),
              total_profit_loss_pct |->
                  RMul(RDiv(RSub(current_capital, initial_capital),
                            initial_capital), R(100)),
              total_commission_paid |-> SumOf(trades, "commission_paid"),
              avg_profit            |->
                  IF Len(winning_trades) > 0
                  THEN RDiv(total_profit, R(Len(winning_trades))) ELSE R(0),
              avg_loss              |->
                  IF Len(losing_trades) > 0
                  THEN RDiv(total_loss, R(Len(losing_trades))) ELSE R(0),
              profit_factor         |-> ProfitFactor(total_profit, total_loss),
              max_drawdown          |-> MaxDrawdown(capital_curve),
              final_capital         |-> current_capital]


\* ------------------------------------------------------------ constructor
InitialCapitals == {R(100)}

CommissionRates == {R(0), Frac(1, 4)}

\* The state after __init__: flat, no trades, capital = initial capital.
Constructed ==
    /\ strategy \in {"Base", "Custom"}
    /\ initial_capital \in InitialCapitals
    /\ commission_rate \in CommissionRates
    /\ current_capital = initial_capital
    /\ trades = <<>>
    /\ current_position = None
    /\ stats = None
    /\ opens = <<>>
    /\ closes = <<>>
    /\ signal_bars = {}
    /\ exit_bars = {}

\* A series of 0 .. WarmUp + MaxTail bars, before run_backtest is called.
Init ==
    /\ Constructed
    /\ lead \in 0..WarmUp
    /\ data \in SeqsUpTo(BarSet, MaxTail)
    /\ lead < WarmUp => data = <<>>
    /\ pc = "idle"
    /\ i = 0

\* ----------------------------------------------------------- run_backtest
\* The header prints self.data.iloc[0] and iloc[-1]: IndexError when empty.
Start ==
    /\ pc = "idle"
    /\ pc' = IF len = 0 THEN "raised" ELSE "for"
    /\ UNCHANGED <<i, stats, config, engine, history>>

\* `for i in range(len(self.data))`: the index after `index`
NextBar(index) == index + 1

\* if i < 200: continue
InWarmUpOffByOne(index) == index < WarmUp - 1
InWarmUp(index) == index < WarmUp

WarmUpSkip ==
    /\ pc = "for"
    /\ i < len
    /\ InWarmUp(i)
    /\ i' = NextBar(i)
    /\ UNCHANGED <<pc, stats, config, engine, history>>

\* `continue` after close_position in step 1
ExitFallsThrough == FALSE
ExitContinues == TRUE

\* The loop body of a bar after the warm-up: step 1 (exit), then step 2
\* (entry).
BodyStepsSwapped == <<"entry", "exit">>
BodySteps == <<"exit", "entry">>

\* Control is at `step` of the body for bar i.
AtStep(step) ==
    IF pc = "for" THEN i < len /\ ~InWarmUp(i) /\ BodySteps[1] = step
                  ELSE pc = step

\* Control leaves `step`: to the other step, or to the next bar.
LeaveStep(step) ==
    IF BodySteps[1] = step
    THEN pc' = BodySteps[2] /\ i' = i
    ELSE pc' = "for" /\ i' = NextBar(i)

\* Step 1: the exit check of bar i, when a position is open.
ExitStep ==
    /\ AtStep("exit")
    /\ IF current_position # None
       THEN LET r == check_exit_conditions(i)
            IN  /\ exit_bars' = exit_bars \cup {i}
                /\ IF r.should_exit
                   THEN /\ close_position(i, r.exit_price, r.exit_reason)
                        /\ IF ExitContinues
                           THEN pc' = "for" /\ i' = NextBar(i)
                           ELSE LeaveStep("exit")
                   ELSE /\ LeaveStep("exit")
                        /\ UNCHANGED <<engine, closes>>
       ELSE /\ LeaveStep("exit")
            /\ UNCHANGED <<engine, closes, exit_bars>>
    /\ UNCHANGED <<stats, config, opens, signal_bars>>

\* `if self.current_position is None:` of step 2
EntryUnguarded(pos) == TRUE
EntryGuard(pos) == pos = None

\* The test of the returned direction left out.
HasSignalAlways(s) == TRUE

\* if direction is not None:
HasSignal(s) == s.direction # NoneStr

\* Step 2: the signal of bar i and the entry, when no position is open.
EntryStep ==
    /\ AtStep("entry")
    /\ IF EntryGuard(current_position)
       THEN /\ signal_bars' = signal_bars \cup {i}
            /\ IF GenerateSignalRaises
               THEN /\ pc' = "raised"
                    /\ UNCHANGED <<i, engine, opens, closes>>
               ELSE \E s \in generate_signal(i) :
                        /\ IF HasSignal(s)
                           THEN open_position(i, s.direction, iloc(i).close,
                                              s.stop_loss, s.take_profit)
                           ELSE UNCHANGED <<engine, opens, closes>>
                        /\ LeaveStep("entry")
       ELSE /\ LeaveStep("entry")
            /\ UNCHANGED <<engine, opens, closes, signal_bars>>
    /\ UNCHANGED <<stats, config, exit_bars>>

\* last_index = len(self.data) - 1
LastIndexOffByOne == len - 2
LastIndex == len - 1

\* The position left open at the end of the data taken as absent.
OpenAtEndIgnored(pos) == FALSE

\* if self.current_position is not None: (after the loop)
OpenAtEnd(pos) == pos # None

\* After the loop: the position left open is closed at the last close.
Finish ==
    /\ pc = "for"
    /\ i >= len
    /\ IF OpenAtEnd(current_position)
       THEN close_position(LastIndex, iloc(LastIndex).close, "End")
       ELSE UNCHANGED <<engine, closes>>
    /\ pc' = "done"
    /\ UNCHANGED <<i, stats, config, opens, signal_bars, exit_bars>>

\* stats = strategy.calculate_statistics() after the run
Statistics ==
    /\ pc = "done"
    /\ stats = None
    /\ IF StatisticsRaises
       THEN pc' = "raised" /\ UNCHANGED stats
       ELSE stats' = calculate_statistics /\ UNCHANGED pc
    /\ UNCHANGED <<i, config, engine, history>>

Next ==
    \/ Start
    \/ WarmUpSkip
    \/ ExitStep
    \/ EntryStep
    \/ Finish
    \/ Statistics

Spec == Init /\ [][Next]_vars


\* ------------------------------------------- run_backtest, any arguments
\* __init__ stores its arguments unchecked: a zero capital and a negative
\* commission rate are accepted.
AnyCapitals == {R(0), R(100)}

AnyRates == {Frac(-1, 4), R(0), Frac(1, 4)}

\* An engine constructed with any arguments on a series of 0 .. WarmUp +
\* MaxCfgTail bars, before run_backtest is called.
CfgInit ==
    /\ strategy \in {"Base", "Custom"}
    /\ initial_capital \in AnyCapitals
    /\ commission_rate \in AnyRates
    /\ current_capital = initial_capital
    /\ trades = <<>>
    /\ current_position = None
    /\ stats = None
    /\ opens = <<>>
    /\ closes = <<>>
    /\ signal_bars = {}
    /\ exit_bars = {}
    /\ lead \in 0..WarmUp
    /\ data \in SeqsUpTo(BarSet, MaxCfgTail)
    /\ lead < WarmUp => data = <<>>
    /\ pc = "idle"
    /\ i = 0

CfgSpec == CfgInit /\ [][Next]_vars

\* ----------------------------------- run_backtest, EMA_CrossoverStrategy
\* The bars of a series in EmaSpec: closes within 1 of the constant rows'.
EmaBarSet == {[high |-> 3, low |-> 1, close |-> 3],
              [high |-> 3, low |-> 2, close |-> 3],
              [high |-> 3, low |-> 1, close |-> 1],
              [high |-> 2, low |-> 1, close |-> 1],
              [high |-> 7, low |-> 3, close |-> 3],
              [high |-> 1, low |-> 1, close |-> 1]}

\* An EMA_CrossoverStrategy engine on a series of WarmUp - 1 constant rows
\* and up to MaxEmaTail more bars, before run_backtest is called.
EmaInit ==
    /\ strategy = "EMA"
    /\ initial_capital \in InitialCapitals
    /\ commission_rate \in CommissionRates
    /\ current_capital = initial_capital
    /\ trades = <<>>
    /\ current_position = None
    /\ stats = None
    /\ opens = <<>>
    /\ closes = <<>>
    /\ signal_bars = {}
    /\ exit_bars = {}
    /\ lead = WarmUp - 1
    /\ data \in SeqsUpTo(EmaBarSet, MaxEmaTail)
    /\ pc = "idle"
    /\ i = 0

EmaSpec == EmaInit /\ [][Next]_vars

\* --------------------------------------------- direct calls of the methods
\* The engine's methods called by a client in any order on a one-row series.
\* stats holds the statistics of the current state: a call that returns
\* nothing clears it.
ApiInit ==
    /\ Constructed
    /\ strategy = "Custom"
    /\ lead = 1
    /\ data = <<>>
    /\ pc = "api"
    /\ i = 0

\* The <<stop_loss, take_profit>> pairs a client passes.
ApiLevels == {<<1, 3>>, <<3, 1>>}

ApiOpen ==
    /\ pc = "api"
    /\ Len(opens) < MaxApiOpens
    /\ \E index \in 0..(len - 1), direction \in {"long", "short"},
          entry_price \in Prices, lv \in ApiLevels :
          open_position(index, direction, entry_price, lv[1], lv[2])
    /\ stats' = None
    /\ UNCHANGED <<pc, i, config, signal_bars, exit_bars>>

ApiClose ==
    /\ pc = "api"
    /\ \E index \in 0..(len - 1), exit_price \in Prices :
          close_position(index, exit_price, "Signal")
    /\ stats' = None
    /\ UNCHANGED <<pc, i, config, opens, signal_bars, exit_bars>>

ApiStatistics ==
    /\ pc = "api"
    /\ ~StatisticsRaises
    /\ stats' = calculate_statistics
    /\ UNCHANGED <<pc, i, config, engine, history>>

ApiNext ==
    \/ ApiOpen
    \/ ApiClose
    \/ ApiStatistics

ApiSpec == ApiInit /\ [][ApiNext]_vars

\* ------------------------------------- direct calls, the last one recorded
\* A client that calls open_position, close_position and
\* check_exit_conditions in any order on a one-row series; pc names the
\* method that returned last.
CallPoints ==
    {"start", "open_position", "close_position", "check_exit_conditions"}

CallInit ==
    /\ Constructed
    /\ strategy = "Custom"
    /\ lead = 1
    /\ data = <<>>
    /\ pc = "start"
    /\ i = 0

CallOpen ==
    /\ pc \in CallPoints
    /\ Len(opens) < MaxCallOpens
    /\ \E index \in 0..(len - 1), direction \in {"long", "short"},
          entry_price \in Prices, lv \in ApiLevels :
          open_position(index, direction, entry_price, lv[1], lv[2])
    /\ pc' = "open_position"
    /\ UNCHANGED <<i, stats, config, signal_bars, exit_bars>>

CallClose ==
    /\ pc \in CallPoints
    /\ \E index \in 0..(len - 1), exit_price \in Prices :
          close_position(index, exit_price, "Signal")
    /\ pc' = "close_position"
    /\ UNCHANGED <<i, stats, config, opens, signal_bars, exit_bars>>

\* check_exit_conditions(index) reads the position and the row and returns.
CallCheck ==
    /\ pc \in CallPoints
    /\ \E index \in 0..(len - 1) : exit_bars' = exit_bars \cup {index}
    /\ pc' = "check_exit_conditions"
    /\ UNCHANGED <<i, stats, config, engine, opens, closes, signal_bars>>

CallNext ==
    \/ CallOpen
    \/ CallClose
    \/ CallCheck

CallSpec == CallInit /\ [][CallNext]_vars

\* ================================================================ claims
\* run_backtest is about to process bar i, a bar after the warm-up.
InLoop == pc = "for" /\ i < len /\ ~(i < 200)

\* --- C1: run_backtest never calls open_position while a position is live:
\* every open_position call found current_position None, so a live position
\* is never overwritten by a new entry.
C1_OpenOnlyWhenFlat ==
    \A k \in 1..Len(opens) : ~opens[k].live

\* A position opened two bars ago is still live: the bar in between was
\* processed with the position open and without a new entry.
C1_Witness ==
    /\ pc = "for"
    /\ current_position # None
    /\ i = current_position.index + 2
    /\ Len(opens) = 1

\* --- C2: on a bar that reaches both the stop and the target of the open
\* position (long: low <= stop_loss and high >= take_profit; short:
\* high >= stop_loss and low <= take_profit) check_exit_conditions returns
\* 'SL' at stop_loss, and a trade closed on such a bar is an 'SL' trade.
BothHit(direction, stop_loss, take_profit, row) ==
    IF direction = "long"
    THEN row.low <= stop_loss /\ row.high >= take_profit
    ELSE row.high >= stop_loss /\ row.low <= take_profit

C2_StopBeforeTarget ==
    /\ current_position # None =>
          \A index \in 0..(len - 1) :
              BothHit(current_position.direction, current_position.stop_loss,
                      current_position.take_profit, iloc(index))
              => LET r == check_exit_conditions(index)
                 IN  /\ r.should_exit
                     /\ r.exit_reason = "SL"
                     /\ r.exit_price = current_position.stop_loss
    /\ \A k \in 1..Len(trades) :
          (/\ trades[k].exit_reason \in {"SL", "TP"}
           /\ BothHit(trades[k].direction, trades[k].stop_loss,
                      trades[k].take_profit, iloc(closes[k].exit)))
          => /\ trades[k].exit_reason = "SL"
             /\ trades[k].exit_price = trades[k].stop_loss

\* A long trade closed 'SL' on a bar that reached both of its distinct
\* levels, and an open short position with a bar that reaches both of its.
C2_Witness ==
    /\ \E k \in 1..Len(trades) :
          /\ trades[k].direction = "long"
          /\ trades[k].exit_reason = "SL"
          /\ trades[k].stop_loss < trades[k].take_profit
          /\ BothHit("long", trades[k].stop_loss, trades[k].take_profit,
                     iloc(closes[k].exit))
    /\ current_position # None
    /\ current_position.direction = "short"
    /\ current_position.take_profit < current_position.stop_loss
    /\ \E index \in 0..(len - 1) :
          BothHit("short", current_position.stop_loss,
                  current_position.take_profit, iloc(index))

\* --- C3: a bar on which the exit check closes the position is not a bar on
\* which the signal predicate runs or a position is opened; the closing step
\* leaves the engine flat and moves to the next bar.
C3_ExitBarsHaveNoEntry ==
    \A k \in 1..Len(trades) :
        trades[k].exit_reason \in {"SL", "TP"}
        => /\ closes[k].exit \notin signal_bars
           /\ \A m \in 1..Len(opens) : opens[m].index # closes[k].exit

C3_ClosingStepAdvances ==
    (InLoop /\ Len(trades') = Len(trades) + 1)
    => (current_position' = None /\ pc' = "for" /\ i' = i + 1)

C3_ExitExcludesEntry ==
    [](C3_ExitBarsHaveNoEntry) /\ [][C3_ClosingStepAdvances]_vars

\* An exit on one bar and the next position opened on the bar after it.
C3_Witness ==
    /\ Len(trades) >= 1
    /\ trades[1].exit_reason \in {"SL", "TP"}
    /\ Len(opens) >= 2
    /\ opens[2].index = closes[1].exit + 1

\* --- C4: no exit check and no signal evaluation happens on a bar with
\* index < 200; no position has an entry index < 200 and no trade has its
\* entry, or an exit other than a forced 'End', on such a bar.
C4_WarmUpSkipped ==
    /\ \A b \in signal_bars \cup exit_bars : b >= 200
    /\ \A k \in 1..Len(opens) : opens[k].index >= 200
    /\ current_position # None => current_position.index >= 200
    /\ \A k \in 1..Len(trades) :
          /\ closes[k].entry >= 200
          /\ trades[k].entry_time >= datetime(200)
          /\ trades[k].exit_reason # "End" => closes[k].exit >= 200

\* The first bar after the warm-up is processed: a position is opened on it.
C4_Witness ==
    /\ opens # <<>>
    /\ opens[1].index = 200
    /\ 200 \in signal_bars

\* --- C5: a position still open after the last bar is closed by run_backtest
\* with reason 'End' at the last bar's close and time; when run_backtest has
\* returned the engine is flat, at most one trade has reason 'End', and that
\* trade is the last of the list.
C5_ForcedClose ==
    (pc = "for" /\ i >= len /\ current_position # None)
    => /\ pc' = "done"
       /\ Len(trades') = Len(trades) + 1
       /\ SubSeq(trades', 1, Len(trades)) = trades
       /\ LET t == trades'[Len(trades')]
          IN  /\ t.exit_reason = "End"
              /\ t.exit_price = data[Len(data)].close
              /\ t.exit_time = (lead + Len(data) - 1) * BarInterval
              /\ t.entry_price = current_position.entry_price
              /\ t.entry_time = current_position.entry_time

C5_FlatOnReturn ==
    pc = "done"
    => /\ current_position = None
       /\ \A k \in 1..Len(trades) :
             trades[k].exit_reason = "End" => k = Len(trades)

C5_EndOfData == [](C5_FlatOnReturn) /\ [][C5_ForcedClose]_vars

\* run_backtest returned after an exit by stop or target and the forced
\* close of a second position.
C5_Witness ==
    /\ pc = "done"
    /\ Len(trades) = 2
    /\ trades[1].exit_reason \in {"SL", "TP"}
    /\ trades[2].exit_reason = "End"
    /\ trades[2].exit_price = data[Len(data)].close

\* --- C6: with strictly increasing timestamps, the entry times of the trade
\* list are strictly increasing and every trade has exit_time >= entry_time.
C6_TradeTimesOrdered ==
    /\ \A k \in 1..Len(trades) : trades[k].exit_time >= trades[k].entry_time
    /\ \A k \in 1..(Len(trades) - 1) :
          trades[k].entry_time < trades[k + 1].entry_time

\* Two trades, the first of them closed on a later bar than it was opened.
C6_Witness ==
    /\ Len(trades) >= 2
    /\ trades[1].exit_time > trades[1].entry_time

\* --- C7: a trade closed 'TP' or 'SL' has an exit bar strictly after its
\* entry bar; a trade whose exit bar is its entry bar has reason 'End' and
\* was opened on the final bar.
C7_NoSameBarStopOrTarget ==
    \A k \in 1..Len(trades) :
        /\ trades[k].exit_reason \in {"SL", "TP"}
           => /\ closes[k].exit > closes[k].entry
              /\ trades[k].exit_time > trades[k].entry_time
        /\ closes[k].exit = closes[k].entry
           => /\ trades[k].exit_reason = "End"
              /\ closes[k].entry = len - 1

\* A stop/target exit on the bar after the entry, then a position opened on
\* the final bar and closed 'End' on it.
C7_Witness ==
    /\ pc = "done"
    /\ Len(trades) = 2
    /\ trades[1].exit_reason \in {"SL", "TP"}
    /\ closes[1].exit = closes[1].entry + 1
    /\ trades[2].exit_reason = "End"
    /\ closes[2].exit = closes[2].entry

\* The fraction x equals n/d (d # 0), by cross-multiplication.
SameFrac(x, n, d) == x[1] * d = n * x[2]

\* exit - entry for a long, entry - exit for a short, in price units
GrossOf(t) ==
    IF t.direction = "long" THEN t.exit_price - t.entry_price
                            ELSE t.entry_price - t.exit_price

\* --- C8: every recorded trade has commission_paid = entry_price *
\* commission_rate * 2, profit_loss = gross - commission_paid with gross =
\* exit - entry (long) or entry - exit (short), and profit_loss_pct =
\* profit_loss / entry_price * 100.
C8_CommissionAccounting ==
    \A k \in 1..Len(trades) :
        LET t   == trades[k]
            rn  == commission_rate[1]
            rd  == commission_rate[2]
            net == GrossOf(t) * rd - 2 * t.entry_price * rn
        IN  /\ SameFrac(t.commission_paid, 2 * t.entry_price * rn, rd)
            /\ SameFrac(t.profit_loss, net, rd)
            /\ t.profit_loss[1] * t.commission_paid[2]
                 + t.commission_paid[1] * t.profit_loss[2]
               = GrossOf(t) * t.profit_loss[2] * t.commission_paid[2]
            /\ SameFrac(t.profit_loss_pct, 100 * net, rd * t.entry_price)

\* A long and a short trade recorded under a non-zero commission rate.
C8_Witness ==
    /\ commission_rate[1] # 0
    /\ Len(trades) = 2
    /\ trades[1].direction = "long"
    /\ trades[2].direction = "short"
    /\ trades[1].exit_price # trades[1].entry_price

RECURSIVE GrowthNum(_)
RECURSIVE GrowthDen(_)
\* The product of (1 + profit_loss_pct/100) over the trades, as num/den.
GrowthNum(ts) ==
    IF ts = <<>> THEN 1
    ELSE LET p == ts[Len(ts)].profit_loss_pct
         IN  GrowthNum(SubSeq(ts, 1, Len(ts) - 1))
               * Frac(100 * p[2] + p[1], 100 * p[2])[1]
GrowthDen(ts) ==
    IF ts = <<>> THEN 1
    ELSE LET p == ts[Len(ts)].profit_loss_pct
         IN  GrowthDen(SubSeq(ts, 1, Len(ts) - 1))
               * Frac(100 * p[2] + p[1], 100 * p[2])[2]

\* --- C9: after any sequence of opens and closes current_capital equals
\* initial_capital times the product of (1 + profit_loss_pct/100) over the
\* recorded trades; the last point of the capital curve of
\* calculate_statistics and its 'final_capital' equal current_capital.
C9_CapitalIsCompoundedReturn ==
    /\ SameFrac(current_capital, initial_capital[1] * GrowthNum(trades),
                initial_capital[2] * GrowthDen(trades))
    /\ LET curve == CapitalCurve(initial_capital, trades)
       IN  /\ Len(curve) = Len(trades) + 1
           /\ curve[Len(curve)] = current_capital
    /\ calculate_statistics.final_capital = current_capital
    /\ stats # None => stats.final_capital = current_capital

\* Two trades recorded, one open_position overwritten or not, the capital
\* moved and the statistics computed.
C9_Witness ==
    /\ Len(trades) = 2
    /\ stats # None
    /\ current_capital # initial_capital
    /\ trades[1].profit_loss_pct # trades[2].profit_loss_pct

\* The capital after the first k trades: initial_capital times the product.
ValueAt(k) ==
    Frac(initial_capital[1] * GrowthNum(SubSeq(trades, 1, k)),
         initial_capital[2] * GrowthDen(SubSeq(trades, 1, k)))

\* The running peak at point k: the largest value among points 0..k.
PeakAt(k) ==
    CHOOSE v \in {ValueAt(j) : j \in 0..k} :
        \A j \in 0..k : ValueAt(j)[1] * v[2] <= v[1] * ValueAt(j)[2]

\* (peak - value) / peak * 100 at point k, as an unreduced num/den pair.
DrawdownAt(k) ==
    LET p == PeakAt(k)
        v == ValueAt(k)
    IN  <<100 * (p[1] * v[2] - v[1] * p[2]), p[1] * v[2]>>

\* Every trade has profit_loss_pct > -100 and initial_capital > 0.
NoTotalLoss ==
    /\ initial_capital[1] > 0
    /\ \A k \in 1..Len(trades) :
          trades[k].profit_loss_pct[1] > -100 * trades[k].profit_loss_pct[2]

\* --- C10: when every trade has profit_loss_pct > -100 and initial_capital
\* > 0, max_drawdown of calculate_statistics lies in [0, 100] and is the
\* maximum over the capital curve of (running peak - value) / running peak *
\* 100, the running peak starting at initial_capital.
C10_MaxDrawdown ==
    NoTotalLoss
    => LET m == calculate_statistics.max_drawdown
       IN  /\ 0 <= m[1]
           /\ m[1] <= 100 * m[2]
           /\ \E k \in 0..Len(trades) :
                 m[1] * DrawdownAt(k)[2] = DrawdownAt(k)[1] * m[2]
           /\ \A k \in 0..Len(trades) :
                 DrawdownAt(k)[1] * m[2] <= m[1] * DrawdownAt(k)[2]
           /\ stats # None => stats.max_drawdown = m

\* A winning trade raised the peak, a losing trade fell below it, and the
\* statistics were computed.
C10_Witness ==
    /\ NoTotalLoss
    /\ Len(trades) = 2
    /\ trades[1].profit_loss[1] > 0
    /\ trades[2].profit_loss[1] < 0
    /\ stats # None
    /\ stats.max_drawdown[1] > 0

\* --- C11: with an empty trade list calculate_statistics returns 0 for every
\* count and metric and final_capital = initial_capital, and it raises no
\* division error whatever the initial capital is.
C11_AllZero ==
    (stats # None /\ trades = <<>>)
    => /\ stats.total_trades = 0
       /\ stats.winning_trades = 0
       /\ stats.losing_trades = 0
       /\ \A f \in {"win_rate", "total_profit_loss", "total_profit_loss_pct",
                    "total_commission_paid", "avg_profit", "avg_loss",
                    "profit_factor", "max_drawdown"} :
             stats[f][1] = 0 /\ stats[f][2] = 1
       /\ stats.final_capital = initial_capital

C11_Returns ==
    (pc = "done" /\ stats = None /\ trades = <<>>)
    => (pc' = "done" /\ stats' # None)

C11_EmptyStatistics == [](C11_AllZero) /\ [][C11_Returns]_vars

\* The statistics of a run over bars after the warm-up that recorded no
\* trade, with an initial capital of zero.
C11_Witness ==
    /\ pc = "done"
    /\ stats # None
    /\ trades = <<>>
    /\ initial_capital[1] = 0
    /\ signal_bars # {}

\* The net profit of trade t times the denominator of the commission rate:
\* gross minus entry_price * commission_rate * 2, from the trade's prices.
NetScaled(t) ==
    GrossOf(t) * commission_rate[2] - 2 * t.entry_price * commission_rate[1]

Winners == {k \in 1..Len(trades) : NetScaled(trades[k]) > 0}
Losers == {k \in 1..Len(trades) : NetScaled(trades[k]) <= 0}

\* --- C12: calculate_statistics counts as winning exactly the trades with
\* profit_loss > 0 and as losing exactly those with profit_loss <= 0 (a
\* zero-net trade is a losing one), so winning_trades + losing_trades =
\* total_trades.
C12_WinLossPartition ==
    stats # None
    => /\ stats.total_trades = Len(trades)
       /\ stats.winning_trades = Cardinality(Winners)
       /\ stats.losing_trades = Cardinality(Losers)
       /\ stats.winning_trades + stats.losing_trades = stats.total_trades

\* The statistics of a winning trade and a trade of net profit zero.
C12_Witness ==
    /\ stats # None
    /\ Len(trades) = 2
    /\ \E k \in 1..2 : NetScaled(trades[k]) = 0
    /\ \E k \in 1..2 : NetScaled(trades[k]) > 0

RECURSIVE WinSumTo(_)
RECURSIVE LossSumTo(_)
\* The sum of NetScaled over the winners among the first k trades.
WinSumTo(k) ==
    IF k = 0 THEN 0
    ELSE WinSumTo(k - 1)
           + (IF k \in Winners THEN NetScaled(trades[k]) ELSE 0)
\* The sum of -NetScaled over the losers among the first k trades.
LossSumTo(k) ==
    IF k = 0 THEN 0
    ELSE LossSumTo(k - 1)
           + (IF k \in Losers THEN -NetScaled(trades[k]) ELSE 0)

WinSum == WinSumTo(Len(trades))
LossSum == LossSumTo(Len(trades))

\* --- C13: for a non-empty trade list and initial_capital > 0
\* calculate_statistics returns a record and raises nothing; profit_factor is
\* total wins / total losses when the losses sum to more than 0 in absolute
\* value and 0 otherwise, avg_profit is 0 without winning trades and avg_loss
\* is 0 without losing trades (each the mean otherwise).
C13_Metrics ==
    (stats # None /\ trades # <<>>)
    => /\ IF LossSum > 0
          THEN SameFrac(stats.profit_factor, WinSum, LossSum)
          ELSE stats.profit_factor[1] = 0
       /\ IF Winners = {}
          THEN stats.avg_profit[1] = 0
          ELSE SameFrac(stats.avg_profit, WinSum,
                        commission_rate[2] * Cardinality(Winners))
       /\ IF Losers = {}
          THEN stats.avg_loss[1] = 0
          ELSE SameFrac(stats.avg_loss, LossSum,
                        commission_rate[2] * Cardinality(Losers))

C13_Returns ==
    (pc = "done" /\ stats = None /\ trades # <<>> /\ initial_capital[1] > 0)
    => (pc' = "done" /\ stats' # None)

C13_StatisticsDefined == [](C13_Metrics) /\ [][C13_Returns]_vars

\* The statistics of a winning and a losing trade with a profit factor
\* other than 0 and 1.
C13_Witness ==
    /\ stats # None
    /\ Len(trades) = 2
    /\ Winners # {}
    /\ LossSum > 0
    /\ WinSum # LossSum
    /\ stats.profit_factor[1] # 0

\* --- C14: an open_position call made while a position is open does not
\* replace that position: the live position's direction, entry price, stop
\* and target stay as they were (the call is refused with an error).
C14_Refused ==
    (current_position # None /\ Len(opens') = Len(opens) + 1)
    => /\ current_position' # None
       /\ current_position'.direction = current_position.direction
       /\ current_position'.entry_price = current_position.entry_price
       /\ current_position'.stop_loss = current_position.stop_loss
       /\ current_position'.take_profit = current_position.take_profit

C14_OpenWhileOpenIsError == [][C14_Refused]_vars

\* A non-positive initial capital, a negative commission rate or a series
\* shorter than the warm-up of 200 bars.
BadConfiguration ==
    \/ initial_capital[1] <= 0
    \/ commission_rate[1] < 0
    \/ len < 200

\* --- C15: run_backtest on a bad configuration fails before the bar loop
\* starts: no bar is processed, the run does not complete, no trade is
\* recorded and the capital is unchanged.
C15_FailsBeforeLoop ==
    BadConfiguration
    => /\ i = 0
       /\ pc # "done"
       /\ trades = <<>>
       /\ current_capital = initial_capital

\* --- C16: an engine whose generate_signal is not overridden is rejected at
\* once: run_backtest processes no bar and does not complete, whatever the
\* length of the series.
C16_ReportedImmediately ==
    strategy = "Base" => (i = 0 /\ pc # "done")

\* The levels of a signal of `direction` on `row` and the entry price of the
\* position opened from it.
SignalLevels(direction, entry_price, stop_loss, take_profit, row) ==
    /\ entry_price = row.close
    /\ direction = "long"
       => /\ stop_loss = row.low
          /\ take_profit = row.close + 2 * (row.close - row.low)
    /\ direction = "short"
       => /\ stop_loss = row.high
          /\ take_profit = row.close - 2 * (row.high - row.close)

\* --- C19: a long signal of the EMA-crossover predicate has stop_loss = the
\* bar's low and take_profit = close + 2 * (close - low), a short signal has
\* stop_loss = the bar's high and take_profit = close - 2 * (high - close),
\* and the engine opens the position at entry_price = the bar's close.
C19_EmaSignalLevels ==
    /\ \A index \in 200..(len - 1) :
          LET s == EMA_generate_signal(index)
          IN  s.direction # NoneStr
              => /\ s.direction \in {"long", "short"}
                 /\ SignalLevels(s.direction, iloc(index).close, s.stop_loss,
                                 s.take_profit, iloc(index))
    /\ current_position # None
       => SignalLevels(current_position.direction,
                       current_position.entry_price,
                       current_position.stop_loss,
                       current_position.take_profit,
                       iloc(current_position.index))
    /\ \A k \in 1..Len(trades) :
          SignalLevels(trades[k].direction, trades[k].entry_price,
                       trades[k].stop_loss, trades[k].take_profit,
                       iloc(closes[k].entry))

\* A long position opened by the predicate at close 3 with stop 2 and
\* target 5, closed at the target on the next bar.
C19_Witness ==
    /\ strategy = "EMA"
    /\ Len(trades) = 1
    /\ trades[1].direction = "long"
    /\ trades[1].entry_price = 3
    /\ trades[1].stop_loss = 2
    /\ trades[1].take_profit = 5
    /\ trades[1].exit_reason = "TP"

\* --- C18: run_backtest calls generate_signal only while no position is
\* open, and the call changes neither current_position, current_capital nor
\* the trade list: after the step the capital and the trades are as before
\* and the position is None, or the one open_position built from the signal.
C18_SignalStep ==
    (signal_bars' # signal_bars)
    => /\ current_position = None
       /\ signal_bars' = signal_bars \cup {i}
       /\ current_capital' = current_capital
       /\ trades' = trades
       /\ IF Len(opens') = Len(opens)
          THEN current_position' = None
          ELSE /\ opens' = Append(opens, [index |-> i, live |-> FALSE])
               /\ current_position'.index = i
               /\ current_position'.entry_price = iloc(i).close

\* No bar on which generate_signal ran lies after the entry bar of a
\* position and within the bars it was open on.
C18_FlatAtCall ==
    /\ current_position # None
       => \A b \in signal_bars : b <= current_position.index
    /\ \A k \in 1..Len(trades) : \A b \in signal_bars :
          ~(closes[k].entry < b /\ b <= closes[k].exit)

C18_SignalOnlyWhenFlat == [](C18_FlatAtCall) /\ [][C18_SignalStep]_vars

\* The predicate ran on bar 200 and opened a position; bar 201 was
\* processed with the position open, without a call of the predicate.
C18_Witness ==
    /\ strategy = "EMA"
    /\ pc = "done"
    /\ signal_bars = {200}
    /\ exit_bars = {201}
    /\ Len(trades) = 1
    /\ closes[1].entry = 200
    /\ closes[1].exit = 201

\* A step that leaves a position open leaves its four fields as they were.
C20_Frame ==
    (current_position # None /\ current_position' # None)
    => /\ current_position'.direction = current_position.direction
       /\ current_position'.entry_price = current_position.entry_price
       /\ current_position'.stop_loss = current_position.stop_loss
       /\ current_position'.take_profit = current_position.take_profit

\* The position stored by an opening step has the levels of the signal of
\* its bar, the arguments of the open_position call.
C20_Stored ==
    (current_position = None /\ current_position' # None)
    => LET s == EMA_generate_signal(i)
       IN  /\ current_position'.index = i
           /\ current_position'.direction = s.direction
           /\ current_position'.stop_loss = s.stop_loss
           /\ current_position'.take_profit = s.take_profit

\* The trade appended by a closing step has the levels of the position and
\* of the signal of the position's entry bar.
C20_Carried ==
    (Len(trades') = Len(trades) + 1)
    => LET t == trades'[Len(trades')]
           s == EMA_generate_signal(current_position.index)
       IN  /\ current_position # None
           /\ t.direction = current_position.direction
           /\ t.entry_price = current_position.entry_price
           /\ t.stop_loss = current_position.stop_loss
           /\ t.take_profit = current_position.take_profit
           /\ t.stop_loss = s.stop_loss
           /\ t.take_profit = s.take_profit

\* --- C20: while a position is open its direction, entry_price, stop_loss
\* and take_profit are unchanged by every step of run_backtest that does not
\* close it, and the trade recorded at the close has exactly the stop_loss
\* and take_profit passed to open_position.
C20_LevelsFixedAtOpen ==
    [][C20_Frame /\ C20_Stored /\ C20_Carried]_vars

\* A short position opened on bar 200 with stop 3 and target -3, held over
\* the exit check of bar 201 and closed at the end of the data.
C20_Witness ==
    /\ strategy = "EMA"
    /\ Len(trades) = 1
    /\ trades[1].direction = "short"
    /\ trades[1].stop_loss = 3
    /\ trades[1].take_profit = -3
    /\ trades[1].exit_reason = "End"
    /\ closes[1].entry = 200
    /\ closes[1].exit = 201
    /\ 201 \in exit_bars

\* --- C21: the trade list is append-only: every step of every operation
\* keeps the recorded trades and their order, a trade is added only by a
\* close_position on an open position, one at a time, and current_capital
\* changes only in a step that appends a trade.
C21_Step ==
    /\ Len(trades') \in {Len(trades), Len(trades) + 1}
    /\ SubSeq(trades', 1, Len(trades)) = trades
    /\ trades' # trades
       => /\ current_position # None
          /\ current_position' = None
          /\ Len(closes') = Len(closes) + 1
          /\ Len(opens') = Len(opens)
    /\ current_capital' # current_capital => Len(trades') = Len(trades) + 1

C21_AppendOnly == [][C21_Step]_vars

\* Two different trades recorded one after the other, and the statistics
\* computed over them.
C21_Witness ==
    /\ Len(trades) = 2
    /\ trades[1] # trades[2]
    /\ current_capital # initial_capital
    /\ stats # None
    /\ current_position = None

\* The EMA-crossover predicate returns no signal on every bar of index >=
\* 200 (no such bar exists in a series of at most 200 bars).
NoSignalAnywhere ==
    \A index \in 200..(len - 1) :
        EMA_generate_signal(index).direction = NoneStr

\* --- C22: when the predicate returns no signal on every bar of index >= 200,
\* or the series has at most 200 bars, run_backtest opens nothing, records
\* zero trades, leaves current_capital = initial_capital and ends flat.
C22_NoSignalNoTrade ==
    NoSignalAnywhere
    => /\ opens = <<>>
       /\ trades = <<>>
       /\ current_capital = initial_capital
       /\ current_position = None
       /\ stats # None => stats.total_trades = 0

\* run_backtest returned from a series of 202 bars on which the predicate
\* ran on bars 200 and 201 and returned no signal.
C22_Witness ==
    /\ strategy = "EMA"
    /\ NoSignalAnywhere
    /\ pc = "done"
    /\ len = 202
    /\ signal_bars = {200, 201}
    /\ iloc(201).close # iloc(200).close

\* --- C23: every position opened by run_backtest is closed exactly once:
\* during the run the open_position calls are one more than the trades while
\* a position is open and as many otherwise, and when run_backtest has
\* returned the k-th trade is the close of the k-th open, with the
\* entry_price and entry_time of that open.
C23_ClosedExactlyOnce ==
    /\ Len(opens) = Len(trades) + (IF current_position # None THEN 1 ELSE 0)
    /\ pc = "done"
       => /\ Len(trades) = Len(opens)
          /\ \A k \in 1..Len(opens) :
                /\ closes[k].entry = opens[k].index
                /\ closes[k].exit >= opens[k].index
                /\ trades[k].entry_time = opens[k].index * BarInterval
                /\ trades[k].entry_price = iloc(opens[k].index).close

\* run_backtest returned after two opens, on bars 200 and 202 at different
\* closes, and two trades.
C23_Witness ==
    /\ pc = "done"
    /\ Len(opens) = 2
    /\ opens[1].index = 200
    /\ opens[2].index = 202
    /\ Len(trades) = 2
    /\ trades[1].entry_price # trades[2].entry_price

\* --- C24: the trades of run_backtest do not overlap: the entry bar of
\* trade k + 1 is strictly after the exit bar of trade k, and the entry bar
\* of the open position strictly after the exit bar of the last trade.
C24_NoOverlap ==
    /\ \A k \in 1..(Len(trades) - 1) : closes[k + 1].entry > closes[k].exit
    /\ (current_position # None /\ trades # <<>>)
       => current_position.index > closes[Len(trades)].exit

\* A trade closed on bar 201 and the next one entered on bar 202.
C24_Witness ==
    /\ Len(trades) = 2
    /\ closes[1].exit = 201
    /\ closes[2].entry = 202
    /\ trades[1].exit_time < trades[2].entry_time

\* stop < entry < target for a long, target < entry < stop for a short, and
\* a risk |entry - stop| above the round-trip commission entry_price *
\* commission_rate * 2.
RiskAboveCommission(direction, entry_price, stop_loss, take_profit) ==
    /\ direction = "long" => (stop_loss < entry_price /\ entry_price < take_profit)
    /\ direction = "short" => (take_profit < entry_price /\ entry_price < stop_loss)
    /\ Abs(entry_price - stop_loss) * commission_rate[2]
          > 2 * entry_price * commission_rate[1]

C26_FlatCall ==
    (current_position = None
       /\ pc' \in {"close_position", "check_exit_conditions"})
    => /\ trades' = trades
       /\ current_capital' = current_capital
       /\ current_position' = None
       /\ closes' = closes

\* While flat check_exit_conditions returns (False, None, None) on every row.
C26_NoExitWhenFlat ==
    current_position = None
    => \A index \in 0..(len - 1) :
          /\ ~check_exit_conditions(index).should_exit
          /\ check_exit_conditions(index).exit_reason = NoneStr

\* --- C26: close_position called while no position is open appends no trade
\* and leaves current_capital and current_position unchanged, and
\* check_exit_conditions while flat reports no exit and changes no state.
C26_FlatCallsAreNoOps == [](C26_NoExitWhenFlat) /\ [][C26_FlatCall]_vars

\* close_position has just returned and check_exit_conditions ran before it,
\* on an engine in which no position was ever opened.
C26_Witness ==
    /\ pc = "close_position"
    /\ opens = <<>>
    /\ exit_bars # {}
    /\ trades = <<>>
    /\ current_position = None
    /\ current_capital = initial_capital

====
